---- MODULE Spec2Model ----
(***************************************************************************)
(* Model of usblock (src/usblock.py): the USB authorization monitor.       *)
(*                                                                         *)
(* The program is one thread.  pc is its position; the environment (the    *)
(* kernel, the hotplug event source, the operator at the terminal, the     *)
(* interrupt signal) acts between its steps.  Console lines are sequences  *)
(* of one-character strings so that rstrip() and int() are computed, not   *)
(* assumed.                                                                *)
(***************************************************************************)
EXTENDS Integers, Sequences, FiniteSets, TLC

VARIABLES
    pc,            \* position of the main thread
    exitCode,      \* -1 while running, else the process exit status
    fault,         \* name of the exception that ended the process, or "none"
    interruptedAt, \* pc at which KeyboardInterrupt was raised, or "none"
    policy,        \* root -> content of interface_authorized_default, or "absent"
    queue,         \* udev events delivered by the netlink monitor, not yet polled
    event,         \* __monitor's loop variable: the event polled last
    dev,           \* UsbLock.__dev: the descriptor snapshot, NoDev when __dev is unset
    devPresent,    \* the device of the running session is still in sysfs
    activeCfg,     \* kernel's bConfigurationValue of that device (0 = unconfigured)
    kernelEvents,  \* asynchronous kernel changes seen by this session so far
    choice,        \* __handle_configuration's parameter (1-based configuration number)
    idx,           \* position of `for intf in cfg` (1-based), 0 outside the loop
    line,          \* last line read from stdin, after rstrip()
    probe_driver,  \* parameter of __unlock_single_interface
    retval,        \* result of __unlock_single_interface
    result,        \* get_active_configuration() as read by __handle_configuration_error
    notFound,      \* the authorize open() of this session raised FileNotFoundError
    writes,        \* sysfs interface writes of the current session, in order
    answers,       \* lines answered to the interface prompts of the current session
    shown          \* prompts printed in the current session, in order

vars == <<pc, exitCode, fault, interruptedAt, policy, queue, event, dev, devPresent,
          activeCfg, kernelEvents, choice, idx, line, probe_driver, retval,
          result, notFound, writes, answers, shown>>

----------------------------------------------------------------------------
(* Bounds *)

MaxQueue == 1
MaxKernelEvents == 2
\* Most events pending in the study of the order events are handled in.
MaxBacklog == 2
\* Largest bConfigurationValue and most configurations of an enumerated device
\* in the study of the value/index map.
MaxValue == 4
MaxConfigurations == 3

----------------------------------------------------------------------------
(* Program constants *)

ERR_SUCCESS == 0
ERR_USB_DEV_REMOVED == 1
ERR_USB_CFG_DISAPPEARED == 2

----------------------------------------------------------------------------
(* Strings as character sequences *)

Whitespace == {" ", "\n", "\t"}
Digits == {"0", "1", "2", "3", "4", "5", "6", "7", "8", "9"}

DigitValue(c) ==
    CASE c = "0" -> 0 [] c = "1" -> 1 [] c = "2" -> 2 [] c = "3" -> 3
      [] c = "4" -> 4 [] c = "5" -> 5 [] c = "6" -> 6 [] c = "7" -> 7
      [] c = "8" -> 8 [] c = "9" -> 9

DigitChar(n) ==
    CASE n = 0 -> "0" [] n = 1 -> "1" [] n = 2 -> "2" [] n = 3 -> "3"
      [] n = 4 -> "4" [] n = 5 -> "5" [] n = 6 -> "6" [] n = 7 -> "7"
      [] n = 8 -> "8" [] n = 9 -> "9"

\* str(n) for a natural number.
RECURSIVE str(_)
str(n) == IF n < 10 THEN <<DigitChar(n)>> ELSE str(n \div 10) \o <<DigitChar(n % 10)>>

\* str.rstrip(): drop trailing whitespace.
RECURSIVE rstrip(_)
rstrip(s) ==
    IF s = <<>> THEN s
    ELSE IF s[Len(s)] \in Whitespace THEN rstrip(SubSeq(s, 1, Len(s) - 1))
    ELSE s

\* str.lstrip(): drop leading whitespace.
RECURSIVE lstrip(_)
lstrip(s) ==
    IF s = <<>> THEN s
    ELSE IF s[1] \in Whitespace THEN lstrip(Tail(s))
    ELSE s

\* Value of a string of digits and single underscores, left to right.
RECURSIVE DigitsValue(_, _)
DigitsValue(s, acc) ==
    IF s = <<>> THEN acc
    ELSE IF s[1] = "_" THEN DigitsValue(Tail(s), acc)
    ELSE DigitsValue(Tail(s), 10 * acc + DigitValue(s[1]))

\* The literals int() accepts once whitespace and sign are removed: digits,
\* optionally grouped by single underscores.
IsIntBody(u) ==
    /\ u # <<>>
    /\ \A i \in 1..Len(u) : u[i] \in Digits \cup {"_"}
    /\ u[1] # "_"
    /\ u[Len(u)] # "_"
    /\ \A i \in 1..(Len(u) - 1) : ~(u[i] = "_" /\ u[i + 1] = "_")

\* to_int(): int(input_string), None on any exception.  None is <<>>, a
\* number n is <<n>>.
to_int(input_string) ==
    LET t == rstrip(lstrip(input_string))
        signed == t # <<>> /\ t[1] \in {"+", "-"}
        u == IF signed THEN Tail(t) ELSE t
    IN  IF ~IsIntBody(u) THEN <<>>
        ELSE IF signed /\ t[1] = "-" THEN <<0 - DigitsValue(u, 0)>>
        ELSE <<DigitsValue(u, 0)>>

None == <<>>

\* Lines the operator can type (as readline() returns them); <<>> is end of input.
Lines ==
    { <<"1", "\n">>, <<"2", "\n">>, <<"1", " ", "\n">>, <<" ", "1", "\n">>,
      <<"3", "\n">>, <<"y", "\n">>, <<"n", "\n">>, <<"y", "e", "s", "\n">>,
      <<"n", "o", "\n">>, <<>> }

NoLine == <<"?">>

----------------------------------------------------------------------------
(* Descriptor snapshots of the devices that can be plugged in.  cfgs is     *)
(* UsbDevice.__cfgs in enumeration order; an interface entry is             *)
(* <<intf.index, intf.bAlternateSetting>>, as PyUSB iterates a              *)
(* configuration.                                                           *)

\* A UsbDevice whose constructor found no match: __dev unset, __cfgs empty.
NoDev == <<>>

\* One configuration (value 3) with interfaces 0 and 1.
DeviceA == << [value |-> 3, intfs |-> << <<0, 0>>, <<1, 0>> >>] >>

\* Two configurations (values 2 and 5); interface 0 of the first has two
\* alternate settings.
DeviceB == << [value |-> 2, intfs |-> << <<0, 0>>, <<0, 1>> >>],
              [value |-> 5, intfs |-> << <<0, 0>> >>] >>

\* The configurations PyUSB yields for a device, in enumeration order; a
\* device is identified with what it enumerates.
Descriptor(d) == d

DeviceIds == {DeviceA, DeviceB}


----------------------------------------------------------------------------
(* UsbDevice *)

\* UsbDevice.__cfgs_map as __init__ fills it: bConfigurationValue -> cfg.index
\* (0-based); a later configuration with the same value overwrites.
cfgs_map(d) ==
    LET cfgs == Descriptor(d)
        Last(v) == CHOOSE i \in 1..Len(cfgs) :
                      /\ cfgs[i].value = v
                      /\ \A j \in 1..Len(cfgs) : cfgs[j].value = v => j <= i
    IN  [v \in {cfgs[i].value : i \in 1..Len(cfgs)} |-> Last(v) - 1]

\* A bConfigurationValue the kernel can report that no snapshot contains.
ForeignValue == CHOOSE v \in 1..255 : \A d \in DeviceIds : v \notin DOMAIN cfgs_map(d)

get_num_configurations(d) == Len(Descriptor(d))

cfg_value_to_indexZeroBased(d, num) == cfgs_map(d)[num]

\* __cfg_value_to_index: KeyError (here: not in DOMAIN) is left to the caller.
cfg_value_to_index(d, num) == cfgs_map(d)[num] + 1

\* __cfg_index_to_value: the key stored with list index num.
cfg_index_to_value(d, num) == CHOOSE v \in DOMAIN cfgs_map(d) : cfgs_map(d)[v] = num

\* get_configuration(num): self.__cfgs[num-1]; sequences here are 1-based.
get_configuration(d, num) == Descriptor(d)[num]

\* What reading <device>/bConfigurationValue returns: "<value>\n", or the
\* empty string while the device is unconfigured.
ConfigurationValueFile(v) == IF v = 0 THEN <<>> ELSE str(v) \o <<"\n">>

\* get_active_configuration(): -1 when the read fails, when the content is
\* not a number, or when the value is not a key of the map.
get_active_configuration(d, present, v) ==
    IF ~present THEN -1
    ELSE LET value == to_int(ConfigurationValueFile(v))
         IN  IF value = None THEN -1
             ELSE IF value[1] \notin DOMAIN cfgs_map(d) THEN -1
             ELSE cfg_value_to_index(d, value[1])

----------------------------------------------------------------------------
(* sysfs *)

Roots == {"usb1", "usb2"}

\* Before the program runs the kernel default is "1"; a root of a kernel
\* without interface authorization has no such attribute.
InitialPolicy == [r \in Roots |-> IF r = "usb1" THEN "1" ELSE "absent"]

\* Variant: the path names the configuration by its position in the list.
PathIntfByPosition(d, num, i) ==
    [cfgv |-> num, intf |-> get_configuration(d, num).intfs[i][1]]

\* <path>/<dev>:<bConfigurationValue>.<intf.index> of entry i of configuration num.
PathIntf(d, num, i) ==
    LET cfg == get_configuration(d, num)
    IN  [cfgv |-> cfg.value, intf |-> cfg.intfs[i][1]]

\* The kernel exposes the interface directories of the active configuration only.
InterfaceNumbers(d, v) ==
    UNION { {Descriptor(d)[k].intfs[j][1] : j \in 1..Len(Descriptor(d)[k].intfs)} :
            k \in {k \in 1..Len(Descriptor(d)) : Descriptor(d)[k].value = v} }

\* Variant: a path exists for as long as the device is plugged in.
SysfsPathExistsWhilePlugged(d, present, v, path) == present

SysfsPathExists(d, present, v, path) ==
    /\ present
    /\ v = path.cfgv
    /\ path.intf \in InterfaceNumbers(d, v)

----------------------------------------------------------------------------
(* Program positions *)

SessionPcs == {"handle_device", "cfg_prompt", "handle_configuration", "intf_prompt",
               "authorize", "probe", "verify", "cfg_error", "continue_prompt"}

\* Positions inside main's try block.
TryPcs == {"enable", "poll"} \cup SessionPcs

\* The loop variable before the first event.
NoEvent == [action |-> "none", devtype |-> "none", dev |-> NoDev]

Events ==
    {[action |-> "add", devtype |-> "usb_device", dev |-> d] : d \in DeviceIds}
    \cup {[action |-> "add", devtype |-> "usb_interface", dev |-> DeviceA],
          [action |-> "remove", devtype |-> "usb_device", dev |-> DeviceA]}

Init ==
    /\ pc = "main"
    /\ exitCode = -1
    /\ fault = "none"
    /\ interruptedAt = "none"
    /\ policy = InitialPolicy
    /\ queue = <<>>
    /\ event = NoEvent
    /\ dev = NoDev
    /\ devPresent = FALSE
    /\ activeCfg = 0
    /\ kernelEvents = 0
    /\ choice = 0
    /\ idx = 0
    /\ line = NoLine
    /\ probe_driver = FALSE
    /\ retval = ERR_SUCCESS
    /\ result = 0
    /\ notFound = FALSE
    /\ writes = <<>>
    /\ answers = <<>>
    /\ shown = <<>>

\* The frame locals of a finished session are dead.
ClearLocals ==
    /\ choice' = 0
    /\ idx' = 0
    /\ probe_driver' = FALSE
    /\ retval' = ERR_SUCCESS
    /\ result' = 0

\* sys.exit(1) after "Panic:" (main, except Exception), f names the exception.
Panic(f) ==
    /\ pc' = "exited"
    /\ exitCode' = 1
    /\ fault' = f

\* Variant: the newest pending event is taken first.
PollNewest(q) == [event |-> q[Len(q)], rest |-> SubSeq(q, 1, Len(q) - 1)]

\* `for device in iter(monitor.poll, None)`: the oldest pending event is
\* delivered and the others stay pending in their order.
Poll(q) == [event |-> Head(q), rest |-> Tail(q)]

\* Variant: every "add" event qualifies.
QualifiesAnyAdd(e) == e.action = "add"

\* __monitor: `if device.action == 'add' and device.get('DEVTYPE') == 'usb_device'`.
Qualifies(e) == e.action = "add" /\ e.devtype = "usb_device"

\* __handle_device returns to the for loop of __monitor.
ReturnToMonitor ==
    /\ pc' = "poll"
    /\ ClearLocals

----------------------------------------------------------------------------
(* main and the monitor loop *)

\* main: the privilege check; a non-root caller gets sys.exit(1).
CheckPrivilege ==
    /\ pc = "main"
    /\ \E uid \in {0, 1000} :
          IF uid # 0
          THEN /\ pc' = "exited"
               /\ exitCode' = 1
               /\ fault' = "privilege"
          ELSE /\ pc' = "enable"
               /\ UNCHANGED <<exitCode, fault>>
    /\ UNCHANGED <<interruptedAt, policy, queue, event, dev, devPresent, activeCfg,
                   kernelEvents, choice, idx, line, probe_driver, retval, result,
                   notFound, writes, answers, shown>>

\* Variant: "0" is written whatever the argument.
LockOnly(lock) ==
    [r \in Roots |-> IF policy[r] = "absent" THEN "absent" ELSE "0"]

\* UsbLock.__lock: every root that has the attribute gets "0" or "1".
Lock(lock) ==
    [r \in Roots |-> IF policy[r] = "absent" THEN "absent"
                     ELSE IF lock THEN "0" ELSE "1"]

\* Variant: enable() writes "1".
EnableUnlocked ==
    /\ pc = "enable"
    /\ policy' = Lock(FALSE)
    /\ pc' = "poll"
    /\ UNCHANGED <<exitCode, fault, interruptedAt, queue, event, dev, devPresent, activeCfg,
                   kernelEvents, choice, idx, line, probe_driver, retval, result,
                   notFound, writes, answers, shown>>

\* UsbLock.enable up to the first monitor.poll.
Enable ==
    /\ pc = "enable"
    /\ policy' = Lock(TRUE)
    /\ pc' = "poll"
    /\ UNCHANGED <<exitCode, fault, interruptedAt, queue, event, dev, devPresent, activeCfg,
                   kernelEvents, choice, idx, line, probe_driver, retval, result,
                   notFound, writes, answers, shown>>

\* One iteration of the for loop of __monitor: take the next event, filter it
\* and construct UsbDevice(path).  The constructor raises when busnum/devnum
\* are absent; when they are present but no enumerated device matches, it
\* returns an object whose __dev was never assigned.
Monitor ==
    /\ pc = "poll"
    /\ queue # <<>>
    /\ queue' = Poll(queue).rest
    /\ event' = Poll(queue).event
    /\ LET e == Poll(queue).event
       IN  IF ~Qualifies(e)
           THEN UNCHANGED <<pc, dev, devPresent, activeCfg, kernelEvents, notFound,
                            writes, answers, shown>>
           ELSE \E outcome \in {"absent", "nomatch", "found"} :
                  CASE outcome = "absent" ->
                         UNCHANGED <<pc, dev, devPresent, activeCfg, kernelEvents,
                                     notFound, writes, answers, shown>>
                    [] outcome = "nomatch" ->
                         /\ pc' = "handle_device"
                         /\ dev' = NoDev
                         /\ devPresent' = FALSE
                         /\ activeCfg' = 0
                         /\ kernelEvents' = 0
                         /\ notFound' = FALSE
                         /\ writes' = <<>>
                         /\ answers' = <<>>
                         /\ shown' = <<>>
                    [] outcome = "found" ->
                         /\ pc' = "handle_device"
                         /\ dev' = e.dev
                         /\ devPresent' = TRUE
                         /\ activeCfg' \in DOMAIN cfgs_map(e.dev)
                         /\ kernelEvents' = 0
                         /\ notFound' = FALSE
                         /\ writes' = <<>>
                         /\ answers' = <<>>
                         /\ shown' = <<>>
    /\ line' = NoLine
    /\ UNCHANGED <<exitCode, fault, interruptedAt, policy, choice, idx,
                   probe_driver, retval, result>>

----------------------------------------------------------------------------
(* The session: UsbLock.__handle_device and below *)

CfgShown == [kind |-> "cfg", cfg |-> 0, idx |-> 0]
IntfShown(num, i) == [kind |-> "intf", cfg |-> num, idx |-> i]
ContinueShown(num) == [kind |-> "continue", cfg |-> num, idx |-> 0]

\* Variant: the prompt is shown for any number of configurations.
NeedsConfigurationPromptAlways(n) == n >= 1

\* __handle_device: `if num_configurations > 1`.
NeedsConfigurationPrompt(n) == n > 1

\* __handle_device: the test of the operator's choice.
ValidChoice(c, n) == c # None /\ c[1] > 0 /\ c[1] <= n

\* __handle_device up to the configuration prompt or the call of
\* __handle_configuration(1).  get_device_summary reads UsbDevice.__dev first.
HandleDevice ==
    /\ pc = "handle_device"
    /\ IF dev = NoDev
       THEN /\ Panic("AttributeError")
            /\ UNCHANGED <<choice, shown>>
       ELSE IF NeedsConfigurationPrompt(get_num_configurations(dev))
       THEN /\ pc' = "cfg_prompt"
            /\ choice' = 1
            /\ shown' = Append(shown, CfgShown)
            /\ UNCHANGED <<exitCode, fault>>
       ELSE /\ pc' = "handle_configuration"
            /\ choice' = 1
            /\ UNCHANGED <<exitCode, fault, shown>>
    /\ UNCHANGED <<interruptedAt, policy, queue, event, dev, devPresent, activeCfg,
                   kernelEvents, idx, line, probe_driver, retval, result, notFound,
                   writes, answers>>

\* Variant: an answer that is no valid choice selects the first configuration.
CfgPromptDefaultsToFirst ==
    /\ pc = "cfg_prompt"
    /\ \E l \in Lines :
          LET c == IF ValidChoice(to_int(rstrip(l)), get_num_configurations(dev))
                   THEN to_int(rstrip(l)) ELSE <<1>>
          IN  /\ line' = rstrip(l)
              /\ IF devPresent
                 THEN /\ activeCfg' = cfg_index_to_value(dev, c[1] - 1)
                      /\ choice' = c[1]
                      /\ pc' = "handle_configuration"
                      /\ UNCHANGED <<exitCode, fault, idx, probe_driver, retval, result>>
                 ELSE /\ Panic("USBError")
                      /\ UNCHANGED <<activeCfg, choice, idx, probe_driver, retval, result>>
    /\ UNCHANGED <<interruptedAt, policy, queue, event, dev, devPresent, kernelEvents,
                   notFound, writes, answers, shown>>

\* __handle_device, the answer to the configuration prompt.
\* set_configuration raises USBError once the device is gone.
CfgPrompt ==
    /\ pc = "cfg_prompt"
    /\ \E l \in Lines :
          LET c == to_int(rstrip(l))
          IN  /\ line' = rstrip(l)
              /\ IF ValidChoice(c, get_num_configurations(dev))
                 THEN IF devPresent
                      THEN /\ activeCfg' = cfg_index_to_value(dev, c[1] - 1)
                           /\ choice' = c[1]
                           /\ pc' = "handle_configuration"
                           /\ UNCHANGED <<exitCode, fault, idx, probe_driver,
                                          retval, result>>
                      ELSE /\ Panic("USBError")
                           /\ UNCHANGED <<activeCfg, choice, idx, probe_driver,
                                          retval, result>>
                 ELSE /\ ReturnToMonitor
                      /\ UNCHANGED <<exitCode, fault, activeCfg>>
    /\ UNCHANGED <<interruptedAt, policy, queue, event, dev, devPresent, kernelEvents,
                   notFound, writes, answers, shown>>

\* __handle_configuration up to the first interface prompt: the switch request,
\* get_configuration and the head of the for loop.
HandleConfiguration ==
    /\ pc = "handle_configuration"
    /\ IF ~devPresent
       THEN /\ Panic("USBError")
            /\ UNCHANGED <<activeCfg, choice, idx, probe_driver, retval, result, shown>>
       ELSE /\ activeCfg' = cfg_index_to_value(dev, choice - 1)
            /\ IF Len(get_configuration(dev, choice).intfs) = 0
               THEN /\ ReturnToMonitor
                    /\ UNCHANGED <<exitCode, fault, shown>>
               ELSE /\ pc' = "intf_prompt"
                    /\ idx' = 1
                    /\ shown' = Append(shown, IntfShown(choice, 1))
                    /\ UNCHANGED <<exitCode, fault, choice, probe_driver, retval, result>>
    /\ UNCHANGED <<interruptedAt, policy, queue, event, dev, devPresent, kernelEvents,
                   line, notFound, writes, answers>>

\* Variant: the loop moves on to the next interface number, passing over the
\* remaining alternate settings of the current one.
ContinueSkippingAlternates(rv) ==
    LET intfs == get_configuration(dev, choice).intfs
        later == {k \in (idx + 1)..Len(intfs) : intfs[k][1] # intfs[idx][1]}
        next == CHOOSE k \in later : \A j \in later : k <= j
    IN  IF later # {}
        THEN /\ pc' = "intf_prompt"
             /\ idx' = next
             /\ shown' = Append(shown, IntfShown(choice, next))
             /\ retval' = rv
             /\ UNCHANGED <<choice, result, probe_driver>>
        ELSE /\ ReturnToMonitor
             /\ shown' = shown

\* `continue` in the for loop, retval being rv: the next interface prompt, or
\* the end of the loop and the return to the monitor.
Continue(rv) ==
    IF idx < Len(get_configuration(dev, choice).intfs)
    THEN /\ pc' = "intf_prompt"
         /\ idx' = idx + 1
         /\ shown' = Append(shown, IntfShown(choice, idx + 1))
         /\ retval' = rv
         /\ UNCHANGED <<choice, result, probe_driver>>
    ELSE /\ ReturnToMonitor
         /\ shown' = shown

\* Variant: any key other than "1" unlocks.
DecisionAnyKey(s) ==
    IF s = <<"1">> THEN "UnlockAndProbe"
    ELSE IF s # <<>> THEN "UnlockOnly"
    ELSE "Locked"

\* __handle_configuration: the if/elif/else on the answer to an interface prompt.
Decision(s) ==
    IF s = <<"1">> THEN "UnlockAndProbe"
    ELSE IF s = <<"2">> THEN "UnlockOnly"
    ELSE "Locked"

\* What the record of a session keeps of an answer: the line when it is one
\* of the two the if/elif compares with, "other" for the else branch.
Answered(s) == IF s \in {<<"1">>, <<"2">>} THEN s ELSE <<"o", "t", "h", "e", "r">>

\* __handle_configuration, the answer to an interface prompt.
IntfPrompt ==
    /\ pc = "intf_prompt"
    /\ \E l \in Lines :
          /\ line' = rstrip(l)
          /\ answers' = Append(answers, Answered(rstrip(l)))
          /\ IF Decision(rstrip(l)) = "Locked"
             THEN Continue(retval)
             ELSE /\ pc' = "authorize"
                  /\ probe_driver' = (Decision(rstrip(l)) = "UnlockAndProbe")
                  /\ UNCHANGED <<choice, idx, retval, result, shown>>
    /\ UNCHANGED <<exitCode, fault, interruptedAt, policy, queue, event, dev, devPresent,
                   activeCfg, kernelEvents, notFound, writes>>

AuthorizedWrite(path) == [attr |-> "authorized", cfgv |-> path.cfgv, intf |-> path.intf]
ProbeWrite(path) == [attr |-> "drivers_probe", cfgv |-> path.cfgv, intf |-> path.intf]

\* Variant: a missing path is reported as a vanished configuration.
NotFoundCodeSwapped == ERR_USB_CFG_DISAPPEARED

\* __unlock_single_interface: what `except FileNotFoundError` returns.
NotFoundCode == ERR_USB_DEV_REMOVED

\* __unlock_single_interface, the write of "1" to <interface>/authorized.
\* open() raises FileNotFoundError when the path is gone; any other refusal
\* of the write is an OSError nobody catches before main.
Authorize ==
    /\ pc = "authorize"
    /\ LET path == PathIntf(dev, choice, idx)
       IN  IF ~SysfsPathExists(dev, devPresent, activeCfg, path)
           THEN /\ retval' = NotFoundCode
                /\ notFound' = TRUE
                /\ pc' = "cfg_error"
                /\ UNCHANGED <<exitCode, fault, writes>>
           ELSE /\ writes' = Append(writes, AuthorizedWrite(path))
                /\ UNCHANGED notFound
                /\ \E accepted \in BOOLEAN :
                      IF accepted
                      THEN /\ pc' = IF probe_driver THEN "probe" ELSE "verify"
                           /\ UNCHANGED <<exitCode, fault, retval>>
                      ELSE /\ Panic("OSError")
                           /\ UNCHANGED retval
    /\ UNCHANGED <<interruptedAt, policy, queue, event, dev, devPresent, activeCfg,
                   kernelEvents, choice, idx, line, probe_driver, result, answers,
                   shown>>

\* __unlock_single_interface, the write of the interface name to
\* /sys/bus/usb/drivers_probe.  The kernel refuses it (ENODEV) when it has no
\* such interface, and can refuse it otherwise; the OSError is not caught.
Probe ==
    /\ pc = "probe"
    /\ LET path == PathIntf(dev, choice, idx)
       IN  /\ writes' = Append(writes, ProbeWrite(path))
           /\ \E accepted \in BOOLEAN :
                 IF accepted /\ SysfsPathExists(dev, devPresent, activeCfg, path)
                 THEN /\ pc' = "verify"
                      /\ UNCHANGED <<exitCode, fault>>
                 ELSE Panic("OSError")
    /\ UNCHANGED <<interruptedAt, policy, queue, event, dev, devPresent, activeCfg,
                   kernelEvents, choice, idx, line, probe_driver, retval, result,
                   notFound, answers, shown>>

\* __unlock_single_interface, __sysfs_path_exists after the sleep, and the
\* caller's test of retval.  It runs whether or not a probe was requested.
Verify ==
    /\ pc = "verify"
    /\ IF SysfsPathExists(dev, devPresent, activeCfg, PathIntf(dev, choice, idx))
       THEN Continue(ERR_SUCCESS)
       ELSE /\ retval' = ERR_USB_CFG_DISAPPEARED
            /\ pc' = "cfg_error"
            /\ UNCHANGED <<choice, idx, probe_driver, result, shown>>
    /\ UNCHANGED <<exitCode, fault, interruptedAt, policy, queue, event, dev, devPresent,
                   activeCfg, kernelEvents, line, notFound, writes, answers>>

\* __handle_configuration_error up to its prompt, and the caller's
\* `if result >= 0` when it returns at once.  It returns -1 for
\* ERR_USB_DEV_REMOVED; for ERR_USB_CFG_DISAPPEARED with no active
\* configuration (result <= 0) it falls off the end and returns None, and
\* None >= 0 raises TypeError.
HandleConfigurationError ==
    /\ pc = "cfg_error"
    /\ IF retval = ERR_USB_DEV_REMOVED
       THEN /\ ReturnToMonitor
            /\ UNCHANGED <<exitCode, fault, shown>>
       ELSE LET active == get_active_configuration(dev, devPresent, activeCfg)
            IN  IF active > 0
                THEN /\ result' = active
                     /\ pc' = "continue_prompt"
                     /\ shown' = Append(shown, ContinueShown(active))
                     /\ UNCHANGED <<exitCode, fault, choice, idx, probe_driver, retval>>
                ELSE /\ Panic("TypeError")
                     /\ UNCHANGED <<choice, idx, probe_driver, retval, result, shown>>
    /\ UNCHANGED <<interruptedAt, policy, queue, event, dev, devPresent, activeCfg,
                   kernelEvents, line, notFound, writes, answers>>

\* Variant: the words of the shutdown prompt are expected here too.
ContinueAnswerYes(s) ==
    IF s = <<"y", "e", "s">> THEN "continue"
    ELSE IF s = <<"n", "o">> THEN "abandon"
    ELSE "again"

\* __handle_configuration_error: the tests inside `while True`.
ContinueAnswer(s) ==
    IF s = <<"y">> THEN "continue"
    ELSE IF s = <<"n">> THEN "abandon"
    ELSE "again"

\* __handle_configuration_error, one readline of the [y/n] loop, and on "y"
\* the caller's __handle_configuration(result).
ContinuePrompt ==
    /\ pc = "continue_prompt"
    /\ \E l \in Lines :
          /\ line' = rstrip(l)
          /\ IF ContinueAnswer(rstrip(l)) = "continue"
             THEN /\ pc' = "handle_configuration"
                  /\ choice' = result
                  /\ idx' = 0
                  /\ probe_driver' = FALSE
                  /\ retval' = ERR_SUCCESS
                  /\ result' = 0
             ELSE IF ContinueAnswer(rstrip(l)) = "abandon"
             THEN ReturnToMonitor
             ELSE UNCHANGED <<pc, choice, idx, probe_driver, retval, result>>
    /\ UNCHANGED <<exitCode, fault, interruptedAt, policy, queue, event, dev, devPresent,
                   activeCfg, kernelEvents, notFound, writes, answers, shown>>

----------------------------------------------------------------------------
(* Interrupt and shutdown *)

\* Variant: the interrupt is only noted and the thread carries on.
InterruptDeferred ==
    /\ pc \in TryPcs
    /\ interruptedAt = "none"
    /\ interruptedAt' = pc
    /\ UNCHANGED <<pc, exitCode, fault, policy, queue, event, dev, devPresent, activeCfg,
                   kernelEvents, choice, idx, line, probe_driver, retval, result,
                   notFound, writes, answers, shown>>

\* KeyboardInterrupt: raised in the main thread wherever it is inside the try
\* block of main; the frames below main are unwound and the except clause
\* starts the shutdown prompt.
Interrupt ==
    /\ pc \in TryPcs
    /\ interruptedAt = "none"
    /\ interruptedAt' = pc
    /\ pc' = "shutdown_prompt"
    /\ ClearLocals
    /\ line' = NoLine
    /\ event' = NoEvent
    /\ UNCHANGED <<exitCode, fault, policy, queue, dev, devPresent, activeCfg,
                   kernelEvents, notFound, writes, answers, shown>>

\* Variant: anything but "yes" keeps the policy and leaves the loop.
ShutdownAnswerDefault(s) ==
    IF s = <<"y", "e", "s">> THEN "unlock"
    ELSE "keep"

\* main: the tests inside the `while True` of the KeyboardInterrupt handler.
ShutdownAnswer(s) ==
    IF s = <<"y", "e", "s">> THEN "unlock"
    ELSE IF s = <<"n", "o">> THEN "keep"
    ELSE "again"

\* main, one iteration of the [yes/no] loop and, once it breaks, the exit.
ShutdownPrompt ==
    /\ pc = "shutdown_prompt"
    /\ \E l \in Lines :
          /\ line' = rstrip(l)
          /\ IF ShutdownAnswer(rstrip(l)) = "unlock"
             THEN /\ policy' = Lock(FALSE)
                  /\ pc' = "exited"
                  /\ exitCode' = 0
             ELSE IF ShutdownAnswer(rstrip(l)) = "keep"
             THEN /\ pc' = "exited"
                  /\ exitCode' = 0
                  /\ UNCHANGED policy
             ELSE UNCHANGED <<pc, exitCode, policy>>
    /\ UNCHANGED <<fault, interruptedAt, queue, event, dev, devPresent, activeCfg,
                   kernelEvents, choice, idx, probe_driver, retval, result,
                   notFound, writes, answers, shown>>

----------------------------------------------------------------------------
(* Environment *)

\* The netlink monitor queues a udev event while the program is busy or waiting.
EmitEvent ==
    /\ pc \in {"poll"} \cup SessionPcs
    /\ Len(queue) < MaxQueue
    /\ \E e \in Events : queue' = Append(queue, e)
    /\ UNCHANGED <<pc, exitCode, fault, interruptedAt, policy, event, dev, devPresent,
                   activeCfg, kernelEvents, choice, idx, line, probe_driver, retval,
                   result, notFound, writes, answers, shown>>

\* The kernel changes the active configuration of the session's device on its
\* own: to another configuration, to none, or to one the snapshot lacks.
KernelSwitch ==
    /\ pc \in SessionPcs
    /\ dev # NoDev
    /\ devPresent
    /\ kernelEvents < MaxKernelEvents
    /\ \E v \in (DOMAIN cfgs_map(dev) \cup {0, ForeignValue}) \ {activeCfg} :
          activeCfg' = v
    /\ kernelEvents' = kernelEvents + 1
    /\ UNCHANGED <<pc, exitCode, fault, interruptedAt, policy, queue, event, dev, devPresent,
                   choice, idx, line, probe_driver, retval, result, notFound, writes, answers,
                   shown>>

\* The device of the session is unplugged.
DeviceRemoved ==
    /\ pc \in SessionPcs
    /\ dev # NoDev
    /\ devPresent
    /\ kernelEvents < MaxKernelEvents
    /\ devPresent' = FALSE
    /\ kernelEvents' = kernelEvents + 1
    /\ UNCHANGED <<pc, exitCode, fault, interruptedAt, policy, queue, event, dev, activeCfg,
                   choice, idx, line, probe_driver, retval, result, notFound, writes, answers,
                   shown>>

----------------------------------------------------------------------------

Program ==
    \/ CheckPrivilege
    \/ Enable
    \/ Monitor
    \/ HandleDevice
    \/ CfgPrompt
    \/ HandleConfiguration
    \/ IntfPrompt
    \/ Authorize
    \/ Probe
    \/ Verify
    \/ HandleConfigurationError
    \/ ContinuePrompt
    \/ ShutdownPrompt

Environment ==
    \/ EmitEvent
    \/ KernelSwitch
    \/ DeviceRemoved
    \/ Interrupt

Next == Program \/ Environment

Spec == Init /\ [][Next]_vars

\* Every step of the program is eventually taken: each blocking read gets a
\* line, each sysfs call returns.  Nothing obliges the environment to act.
FairSpec == Spec /\ WF_vars(Program)

----------------------------------------------------------------------------
(* The value/index map on its own: every device whose configurations carry  *)
(* distinct bConfigurationValues, and the UsbDevice methods that go through *)
(* the map applied to it in any order.                                      *)

\* Enumerations of up to MaxConfigurations configurations with distinct
\* values from 1..MaxValue, in every order.
MapDescriptors ==
    LET Values == UNION {[1..n -> 1..MaxValue] : n \in 1..MaxConfigurations}
        Distinct(f) == \A i, j \in DOMAIN f : f[i] = f[j] => i = j
    IN  {[i \in DOMAIN f |-> [value |-> f[i], intfs |-> << <<0, 0>> >>]] :
            f \in {g \in Values : Distinct(g)}}

\* A resolved device (UsbDevice.__init__ done), configured by the kernel with
\* one of its configurations.
MapInit ==
    /\ pc = "map_resolved"
    /\ exitCode = -1
    /\ fault = "none"
    /\ interruptedAt = "none"
    /\ policy = InitialPolicy
    /\ queue = <<>>
    /\ event = NoEvent
    /\ dev \in MapDescriptors
    /\ devPresent = TRUE
    /\ activeCfg \in DOMAIN cfgs_map(dev)
    /\ kernelEvents = 0
    /\ choice = 0
    /\ idx = 0
    /\ line = NoLine
    /\ probe_driver = FALSE
    /\ retval = ERR_SUCCESS
    /\ result = 0
    /\ notFound = FALSE
    /\ writes = <<>>
    /\ answers = <<>>
    /\ shown = <<>>

\* set_configuration(num) for a 1-based position num.
MapSetConfiguration ==
    /\ \E num \in 1..get_num_configurations(dev) :
          /\ choice' = num
          /\ activeCfg' = cfg_index_to_value(dev, num - 1)
    /\ pc' = "map_set"
    /\ UNCHANGED <<exitCode, fault, interruptedAt, policy, queue, event, dev, devPresent,
                   kernelEvents, idx, line, probe_driver, retval, result,
                   notFound, writes, answers, shown>>

\* get_active_configuration() on what the kernel reports.
MapGetActiveConfiguration ==
    /\ result' = get_active_configuration(dev, devPresent, activeCfg)
    /\ pc' = "map_read"
    /\ UNCHANGED <<exitCode, fault, interruptedAt, policy, queue, event, dev, devPresent,
                   activeCfg, kernelEvents, choice, idx, line, probe_driver,
                   retval, notFound, writes, answers, shown>>

MapNext == MapSetConfiguration \/ MapGetActiveConfiguration

MapSpec == MapInit /\ [][MapNext]_vars

----------------------------------------------------------------------------
(* The monitor loop with a backlog: several events pending at once, the     *)
(* devices left alone by the kernel and the program not interrupted.        *)

\* The netlink socket buffers every event that arrives while the program is
\* in a session or waiting.
BacklogEmit ==
    /\ pc \in {"poll"} \cup SessionPcs
    /\ Len(queue) < MaxBacklog
    /\ \E e \in Events : queue' = Append(queue, e)
    /\ UNCHANGED <<pc, exitCode, fault, interruptedAt, policy, event, dev, devPresent,
                   activeCfg, kernelEvents, choice, idx, line, probe_driver, retval,
                   result, notFound, writes, answers, shown>>

BacklogNext ==
    \/ CheckPrivilege
    \/ Enable
    \/ Monitor
    \/ HandleDevice
    \/ CfgPrompt
    \/ HandleConfiguration
    \/ IntfPrompt
    \/ Authorize
    \/ Probe
    \/ Verify
    \/ BacklogEmit

BacklogSpec == Init /\ [][BacklogNext]_vars

----------------------------------------------------------------------------
TypeOK ==
    /\ pc \in {"main", "shutdown_prompt", "exited"} \cup TryPcs
    /\ exitCode \in {-1, 0, 1}
    /\ dev \in DeviceIds \cup {NoDev}
    /\ Len(queue) <= MaxQueue
    /\ kernelEvents \in 0..MaxKernelEvents
    /\ retval \in {ERR_SUCCESS, ERR_USB_DEV_REMOVED, ERR_USB_CFG_DISAPPEARED}

----------------------------------------------------------------------------
(* Properties *)

UnlockAnswers == {<<"1">>, <<"2">>}

\* C1: a sysfs write of a session (authorize or driver probe) happens only
\* while the interface entry being handled was answered "1" or "2", and it
\* targets the path of that entry; an entry answered with anything else is
\* followed by the next prompt or the end of the loop with no write at all.
C1_WritesOnlyForUnlockAnswers ==
    [][ /\ (pc' = "authorize" => line' \in UnlockAnswers)
        /\ (Len(writes') > Len(writes) =>
               /\ pc \in {"authorize", "probe"}
               /\ line \in UnlockAnswers
               /\ Len(writes') = Len(writes) + 1
               /\ writes'[Len(writes')].cfgv = PathIntf(dev, choice, idx).cfgv
               /\ writes'[Len(writes')].intf = PathIntf(dev, choice, idx).intf
               /\ (pc = "authorize" <=> writes'[Len(writes')].attr = "authorized"))
        /\ (pc = "intf_prompt" /\ line' \notin UnlockAnswers =>
               /\ pc' # "authorize"
               /\ writes' = writes)
      ]_vars

\* C1 witness: device A, interface 0 answered with another key, interface 1
\* answered "2"; the only write of the session is the authorize of interface 1.
C1_Witness ==
    /\ pc = "poll"
    /\ dev = DeviceA
    /\ shown = <<IntfShown(1, 1), IntfShown(1, 2)>>
    /\ writes = <<[attr |-> "authorized", cfgv |-> 3, intf |-> 1]>>

\* C6: once the authorize open() failed with FileNotFoundError the session
\* goes through __handle_configuration_error and ends: from then on no prompt
\* is printed and no sysfs write is made for this device.
C6_NotFoundEndsExamination ==
    [][ /\ (~notFound /\ notFound' => pc = "authorize" /\ pc' = "cfg_error")
        /\ (notFound /\ notFound' =>
               /\ shown' = shown
               /\ writes' = writes
               /\ pc' \in {"cfg_error", "poll", "shutdown_prompt", "exited"}
               /\ (pc # "cfg_error" => pc' # "cfg_error"))
      ]_vars

\* C6 witness: device A, interface 0 (of two) failed with not-found, the
\* session is over and interface 1 was never prompted.
C6_Witness ==
    /\ pc = "poll"
    /\ notFound
    /\ dev = DeviceA
    /\ shown = <<IntfShown(1, 1)>>
    /\ interruptedAt = "none"

\* C10: a session for a device with exactly one configuration never is at
\* the configuration prompt and never printed it; its first prompt is an
\* interface prompt, printed before any line was read.
C10_SingleConfigurationNoPrompt ==
    (pc \in SessionPcs /\ dev # NoDev /\ get_num_configurations(dev) = 1) =>
        /\ pc # "cfg_prompt"
        /\ \A i \in 1..Len(shown) : shown[i].kind # "cfg"
        /\ (shown # <<>> => shown[1].kind = "intf")
        /\ (Len(shown) = 1 /\ pc = "intf_prompt" => line = NoLine)

\* C10 witness: device A at its first interface prompt.
C10_Witness ==
    /\ pc = "intf_prompt"
    /\ dev = DeviceA
    /\ get_num_configurations(dev) = 1
    /\ shown = <<IntfShown(1, 1)>>
    /\ line = NoLine

\* C2: an attach event whose device cannot be resolved starts no session
\* (__handle_device is never entered without a device) and does not end the
\* process.
C2_UnresolvedDeviceSkipped ==
    /\ (pc = "handle_device" => dev # NoDev)
    /\ fault # "AttributeError"

\* C3: in __handle_configuration_error after the path vanished, when no
\* valid active configuration can be read, the session ends and the monitor
\* loop goes on; the process does not exit.
C3_NoActiveConfigurationAbandons ==
    [][ ( /\ pc = "cfg_error"
          /\ retval = ERR_USB_CFG_DISAPPEARED
          /\ get_active_configuration(dev, devPresent, activeCfg) <= 0
          /\ pc' \notin {"cfg_error", "shutdown_prompt"} )
        => (pc' = "poll" /\ exitCode' = -1)
      ]_vars

\* C4: when the verification after a probe found the path gone and the active
\* configuration read afterwards is the selected one, the session ends without
\* the continue prompt.
C4_UnchangedConfigurationAbandons ==
    [][ ( /\ pc = "cfg_error"
          /\ retval = ERR_USB_CFG_DISAPPEARED
          /\ probe_driver
          /\ get_active_configuration(dev, devPresent, activeCfg) = choice
          /\ pc' \notin {"cfg_error", "shutdown_prompt"} )
        => (pc' = "poll" /\ shown' = shown)
      ]_vars

\* C5 as stated: the line "yes" at the continue prompt for a different
\* configuration resumes the examination with that configuration.
C5_YesResumes ==
    [][ ( /\ pc = "continue_prompt"
          /\ probe_driver
          /\ result # choice
          /\ line' = <<"y", "e", "s">>
          /\ line # line' )
        => (pc' = "handle_configuration" /\ choice' = result)
      ]_vars

\* C5 amended: the line "y" at the continue prompt re-enters
\* __handle_configuration with the configuration read back, no prompt printed
\* in between; the first prompt __handle_configuration prints is the one of
\* the first interface entry of its configuration.
C5_YResumesAtFirstInterface ==
    [][ /\ ( ( /\ pc = "continue_prompt"
               /\ line' = <<"y">>
               /\ line # line' )
             => ( /\ pc' = "handle_configuration"
                  /\ choice' = result
                  /\ shown' = shown
                  /\ writes' = writes ) )
        /\ ( (pc = "handle_configuration" /\ pc' = "intf_prompt")
             => ( /\ choice' = choice
                  /\ idx' = 1
                  /\ shown' = Append(shown, IntfShown(choice, 1)) ) )
      ]_vars

\* C5 witness: device B, configuration 1 chosen, interface entry 1 unlocked
\* and probed, path gone at verification, configuration 2 read back and
\* accepted with "y": the session is at the first interface prompt of
\* configuration 2 and printed the configuration prompt once.
C5_Witness ==
    /\ pc = "intf_prompt"
    /\ dev = DeviceB
    /\ choice = 2
    /\ idx = 1
    /\ shown = <<CfgShown, IntfShown(1, 1), ContinueShown(2), IntfShown(2, 1)>>
    /\ writes = <<[attr |-> "authorized", cfgv |-> 2, intf |-> 0],
                  [attr |-> "drivers_probe", cfgv |-> 2, intf |-> 0]>>

ContinueWords == {<<"y">>, <<"n">>}
ShutdownWords == {<<"y", "e", "s">>, <<"n", "o">>}

\* What C7 and its amendment share: an unrecognized line at the configuration
\* prompt ends the session with nothing switched or written; an unrecognized
\* line at an interface prompt moves on to the next entry (or ends the loop)
\* with nothing written.
UnrecognizedAtSelectionPrompts ==
    /\ ( ( /\ pc = "cfg_prompt"
           /\ pc' \notin {"cfg_prompt", "shutdown_prompt"}
           /\ LET c == to_int(line')
              IN  c = None \/ c[1] < 1 \/ c[1] > get_num_configurations(dev) )
         => ( /\ pc' = "poll"
              /\ exitCode' = -1
              /\ activeCfg' = activeCfg
              /\ writes' = writes
              /\ shown' = shown ) )
    /\ ( ( /\ pc = "intf_prompt"
           /\ pc' # "shutdown_prompt"
           /\ (pc' # pc \/ idx' # idx)
           /\ line' \notin UnlockAnswers )
         => ( /\ pc' \in {"intf_prompt", "poll"}
              /\ (pc' = "intf_prompt" => idx' = idx + 1)
              /\ exitCode' = -1
              /\ writes' = writes ) )

\* C7 as stated: at every prompt an unrecognized line is taken as the safe
\* default and the program proceeds; the prompt does not wait again.
C7_UnrecognizedIsSafeDefault ==
    [][ /\ UnrecognizedAtSelectionPrompts
        /\ ( ( /\ pc = "continue_prompt"
               /\ pc' # "shutdown_prompt"
               /\ line' # line
               /\ line' \notin ContinueWords )
             => (pc' = "poll" /\ exitCode' = -1) )
        /\ ( ( /\ pc = "shutdown_prompt"
               /\ line' # line
               /\ line' \notin ShutdownWords )
             => (pc' = "exited" /\ exitCode' = 0 /\ policy' = policy) )
      ]_vars

\* C7 amended: the configuration and interface prompts take an unrecognized
\* line as the safe default; the continue prompt and the shutdown prompt
\* discard it and wait for another line, changing nothing else.
C7_UnrecognizedPerPrompt ==
    [][ /\ UnrecognizedAtSelectionPrompts
        /\ ( ( /\ pc = "continue_prompt"
               /\ pc' # "shutdown_prompt"
               /\ line' # line
               /\ line' \notin ContinueWords )
             => ( /\ pc' = "continue_prompt"
                  /\ exitCode' = -1
                  /\ UNCHANGED <<choice, result, activeCfg, writes, shown>> ) )
        /\ ( ( /\ pc = "shutdown_prompt"
               /\ line' # line
               /\ line' \notin ShutdownWords )
             => ( /\ pc' = "shutdown_prompt"
                  /\ exitCode' = -1
                  /\ UNCHANGED <<policy, writes, shown>> ) )
      ]_vars

\* C7 witness: the shutdown prompt has read the line "y", which it does not
\* know, and is still waiting; the policy is still locked.
C7_Witness ==
    /\ pc = "shutdown_prompt"
    /\ line = <<"y">>
    /\ policy["usb1"] = "0"
    /\ exitCode = -1

\* C8: a session started for a resolved device eventually is back in the
\* monitor loop (or was interrupted, which hands over to the shutdown prompt).
C8_SessionReachesDone ==
    (pc \in SessionPcs /\ dev # NoDev) ~> (pc \in {"poll", "shutdown_prompt"})

\* C9 as stated: an interrupt is taken only between sessions, never at a
\* position inside one.
C9_InterruptWaitsForSession ==
    interruptedAt \notin SessionPcs

\* C9 amended: the interrupt takes effect at the position the thread is in,
\* inside a session too: the next position is the shutdown prompt, and from
\* then on the session prints no prompt and makes no sysfs interface write.
C9_InterruptCutsSessionShort ==
    [][ /\ ( (interruptedAt = "none" /\ interruptedAt' # "none")
             => ( /\ interruptedAt' = pc
                  /\ pc' = "shutdown_prompt"
                  /\ writes' = writes
                  /\ shown' = shown ) )
        /\ ( interruptedAt # "none"
             => ( /\ pc' \in {"shutdown_prompt", "exited"}
                  /\ interruptedAt' = interruptedAt
                  /\ writes' = writes
                  /\ shown' = shown ) )
      ]_vars

\* C9 witness: the interrupt arrived after the authorize write and before the
\* driver probe that the operator had asked for; the shutdown prompt is up.
C9_Witness ==
    /\ pc = "shutdown_prompt"
    /\ interruptedAt = "probe"
    /\ writes # <<>>
    /\ writes[Len(writes)].attr = "authorized"

\* The lines int() turns into one of 1..n.
IsChoiceOf(s, n) == \E k \in 1..n : to_int(s) = <<k>>

\* C11: when the answer to the configuration prompt is no integer in 1..N the
\* session is over at once: back in the monitor loop, the active
\* configuration untouched (no switch requested), nothing written, and the
\* configuration prompt the only prompt the session ever printed.
C11_InvalidChoiceLeavesAllLocked ==
    [][ ( /\ pc = "cfg_prompt"
          /\ pc' \notin {"cfg_prompt", "shutdown_prompt"}
          /\ ~IsChoiceOf(line', get_num_configurations(dev)) )
        => ( /\ get_num_configurations(dev) > 1
             /\ pc' = "poll"
             /\ exitCode' = -1
             /\ activeCfg' = activeCfg
             /\ shown = <<CfgShown>>
             /\ shown' = shown
             /\ writes = <<>>
             /\ writes' = writes )
      ]_vars

\* C11 witness: device B (two configurations), the answer was "3"; the
\* session is over with one prompt printed and nothing written.
C11_Witness ==
    /\ pc = "poll"
    /\ dev = DeviceB
    /\ line = <<"3">>
    /\ shown = <<CfgShown>>
    /\ writes = <<>>

\* C12: with distinct configuration values the map built at resolution is a
\* bijection between values and 1-based positions: the position reported for
\* the active value maps back to that value (value -> index -> value), the
\* position just selected is the position reported afterwards
\* (index -> value -> index), and no method changes the map.
C12_ValueIndexRoundTrip ==
    [][ /\ (pc' = "map_read" /\ pc = "map_set" => result' = choice)
        /\ (pc' = "map_read"
              => /\ result' \in 1..get_num_configurations(dev)
                 /\ cfg_index_to_value(dev, result' - 1) = activeCfg)
        /\ (pc' = "map_set" => cfg_value_to_index(dev, activeCfg') = choice')
        /\ cfgs_map(dev') = cfgs_map(dev)
      ]_vars

\* A device with values 4 and 2, in that order: position 2 was selected, the
\* kernel reports value 2 and position 2 is read back.
C12_Witness ==
    /\ pc = "map_read"
    /\ Len(dev) = 2
    /\ dev[1].value = 4
    /\ dev[2].value = 2
    /\ choice = 2
    /\ activeCfg = 2
    /\ result = 2

\* The session of the scenario: the device with one configuration and two
\* interfaces, nothing changed by the kernel, no interrupt and no write refused.
UndisturbedSessionOnA ==
    /\ dev = DeviceA
    /\ devPresent
    /\ kernelEvents = 0
    /\ interruptedAt = "none"
    /\ fault = "none"

Auth(i) == [attr |-> "authorized", cfgv |-> 3, intf |-> i]
Prob(i) == [attr |-> "drivers_probe", cfgv |-> 3, intf |-> i]

\* C13: on the device with one configuration and interfaces 0 and 1, paths
\* staying present, the answers 1 then 2 make the session write authorized of
\* interface 0, probe interface 0, then write authorized of interface 1 and
\* nothing else, in that order, and the session can only be on its way to, or
\* at, its normal end (back in the monitor loop).
C13_OneThenTwoScenario ==
    /\ (UndisturbedSessionOnA /\ answers = << <<"1">> >>
          => \/ pc = "authorize" /\ idx = 1 /\ probe_driver /\ writes = <<>>
             \/ pc = "probe" /\ idx = 1 /\ writes = <<Auth(0)>>
             \/ pc = "verify" /\ idx = 1 /\ writes = <<Auth(0), Prob(0)>>
             \/ pc = "intf_prompt" /\ idx = 2 /\ writes = <<Auth(0), Prob(0)>>)
    /\ (UndisturbedSessionOnA /\ answers = << <<"1">>, <<"2">> >>
          => \/ pc = "authorize" /\ idx = 2 /\ ~probe_driver
                /\ writes = <<Auth(0), Prob(0)>>
             \/ pc = "verify" /\ idx = 2 /\ writes = <<Auth(0), Prob(0), Auth(1)>>
             \/ pc = "poll" /\ exitCode = -1
                /\ writes = <<Auth(0), Prob(0), Auth(1)>>)

C13_Witness ==
    /\ UndisturbedSessionOnA
    /\ answers = << <<"1">>, <<"2">> >>
    /\ pc = "poll"
    /\ writes = <<Auth(0), Prob(0), Auth(1)>>
    /\ shown = <<IntfShown(1, 1), IntfShown(1, 2)>>

\* C14: after an interrupt taken while the monitor loop waits, no event is
\* consumed any more and the only thing that happens is the [yes/no] question:
\* the answer no ends the process with status 0 and the policy still locked
\* and untouched, the answer yes ends it with status 0 after every root that
\* has the attribute got "1"; neither answer is asked for a second time.
C14_IdleInterruptAsksOnce ==
    [][ /\ (pc = "poll" /\ pc' = "shutdown_prompt"
              => policy' = policy /\ queue' = queue)
        /\ (pc = "shutdown_prompt" /\ interruptedAt = "poll"
              => /\ pc' \in {"shutdown_prompt", "exited"}
                 /\ queue' = queue
                 /\ \A r \in Roots : policy[r] \in {"0", "absent"}
                 /\ (line' = <<"n", "o">>
                       => pc' = "exited" /\ exitCode' = 0 /\ policy' = policy)
                 /\ (line' = <<"y", "e", "s">>
                       => /\ pc' = "exited"
                          /\ exitCode' = 0
                          /\ \A r \in Roots :
                                policy'[r] = IF policy[r] = "absent"
                                             THEN "absent" ELSE "1")
                 /\ (pc' = "exited" => exitCode' = 0))
      ]_vars

\* Interrupted while waiting with an event pending, answered no.
C14_Witness ==
    /\ pc = "exited"
    /\ exitCode = 0
    /\ interruptedAt = "poll"
    /\ line = <<"n", "o">>
    /\ queue # <<>>
    /\ policy["usb1"] = "0"

\* C15: a refused authorize or probe write, or a failed configuration switch,
\* never ends the process: it does not exit on the OSError or USBError of a
\* session's sysfs operation.
C15_SysfsFailureStaysInSession ==
    pc = "exited" => fault \notin {"OSError", "USBError"}

\* Every root that has the default-authorization attribute holds "0".
PolicyLocked == \A r \in Roots : policy[r] \in {"0", "absent"}

\* C16: the policy is locked whenever the monitor loop waits or a session
\* runs, so no event is consumed before it is; no step of a session changes a
\* default-authorization attribute, and the only steps that do are enable()
\* and the answer yes to the shutdown prompt.
C16_PolicyLockedWhileMonitoring ==
    [][ /\ (pc \in {"poll"} \cup SessionPcs => PolicyLocked)
        /\ (Len(queue') < Len(queue) => PolicyLocked)
        /\ (pc \in SessionPcs => policy' = policy)
        /\ (policy' # policy
              => \/ pc = "enable"
                 \/ pc = "shutdown_prompt" /\ line' = <<"y", "e", "s">>)
      ]_vars

\* A session that has authorized and probed, the policy still locked.
C16_Witness ==
    /\ pc = "verify"
    /\ Len(writes) = 2
    /\ policy["usb1"] = "0"
    /\ policy["usb2"] = "absent"

\* C17: a session starts only from the waiting monitor loop, so never while
\* another one runs; while a session runs, arriving events are only appended
\* to the pending ones; the loop takes the pending events one per iteration,
\* oldest first, and the session it starts is about the event it took.
C17_OneSessionEventsInOrder ==
    [][ /\ (pc' = "handle_device" /\ pc # "handle_device" => pc = "poll")
        /\ (pc \in SessionPcs
              => \/ queue' = queue
                 \/ \E e \in Events : queue' = Append(queue, e))
        /\ (pc = "poll" /\ pc' \in {"poll", "handle_device"} /\ queue' # queue
              => \/ \E e \in Events : queue' = Append(queue, e)
                 \/ /\ queue # <<>>
                    /\ queue' = Tail(queue)
                    /\ (pc' = "handle_device"
                          => /\ Head(queue).action = "add"
                             /\ Head(queue).devtype = "usb_device"
                             /\ dev' \in {Head(queue).dev, NoDev}))
      ]_vars

\* A session on the device with two configurations; behind it wait the attach
\* events of the other device and of this device again, in that order.
C17_Witness ==
    /\ pc = "intf_prompt"
    /\ dev = DeviceB
    /\ queue = <<[action |-> "add", devtype |-> "usb_device", dev |-> DeviceA],
                 [action |-> "add", devtype |-> "usb_device", dev |-> DeviceB]>>

\* C18: the loop starts a resolution and a session only for an event whose
\* action is "add" and whose device type is usb_device; taking any other
\* event leaves the loop waiting, resolves no device, prints no prompt and
\* writes nothing.
C18_OnlyAttachedDevicesStartSessions ==
    [][ /\ (pc = "poll" /\ pc' = "handle_device"
              => /\ queue # <<>>
                 /\ Head(queue).action = "add"
                 /\ Head(queue).devtype = "usb_device")
        /\ (dev' # dev => pc = "poll" /\ pc' = "handle_device")
        /\ (pc = "poll" /\ Len(queue') < Len(queue)
               /\ ~(Head(queue).action = "add" /\ Head(queue).devtype = "usb_device")
              => /\ pc' = "poll"
                 /\ event' = Head(queue)
                 /\ UNCHANGED <<dev, devPresent, activeCfg, shown, writes, answers,
                                policy, exitCode>>)
      ]_vars

\* The first event the loop took was the attach of an interface: the loop
\* waits again, no device resolved, nothing shown, nothing written.
C18_Witness ==
    /\ pc = "poll"
    /\ event = [action |-> "add", devtype |-> "usb_interface", dev |-> DeviceA]
    /\ queue = <<>>
    /\ dev = NoDev
    /\ shown = <<>>
    /\ writes = <<>>

\* C19: an unlock-only decision never ends in the recovery of a vanished
\* configuration: with no probe requested, __handle_configuration_error is
\* entered only because the authorize write itself found no path.
C19_UnlockOnlyNeverRecovers ==
    (pc = "cfg_error" /\ ~probe_driver) => retval = ERR_USB_DEV_REMOVED

\* The interface entry of the prompt being answered is in sysfs: the device is
\* plugged in and its active configuration is the selected one.
EntryExists ==
    /\ devPresent
    /\ activeCfg = get_configuration(dev, choice).value

\* C20: for an unlock-and-probe decision the probe is requested only right
\* after the authorize write was made and accepted, the verification comes
\* only after the probe request, a failed authorize write is followed by no
\* write at all, and the loop goes on to the next interface (success) only
\* when the entry exists at the verification; otherwise it reports a vanished
\* configuration.
C20_AuthorizeProbeVerify ==
    [][ /\ (pc' = "probe" /\ pc # "probe"
              => /\ pc = "authorize"
                 /\ probe_driver
                 /\ writes' = Append(writes, AuthorizedWrite(PathIntf(dev, choice, idx))))
        /\ (pc = "authorize" /\ probe_driver /\ pc' = "cfg_error"
              => writes' = writes /\ retval' = ERR_USB_DEV_REMOVED)
        /\ (pc = "probe" /\ pc' \notin {"probe", "shutdown_prompt"}
              => /\ writes' = Append(writes, ProbeWrite(PathIntf(dev, choice, idx)))
                 /\ pc' \in {"verify", "exited"})
        /\ (pc' = "verify" /\ pc # "verify" /\ probe_driver' => pc = "probe")
        /\ (pc = "verify" /\ probe_driver /\ pc' \notin {"verify", "shutdown_prompt"}
              => /\ writes' = writes
                 /\ IF EntryExists
                    THEN pc' \in {"intf_prompt", "poll"} /\ retval' = ERR_SUCCESS
                    ELSE pc' = "cfg_error" /\ retval' = ERR_USB_CFG_DISAPPEARED)
      ]_vars

\* Interface 0 was unlocked and probed and found in place; the kernel changed
\* nothing; the second interface prompt is waiting.
C20_Witness ==
    /\ pc = "intf_prompt"
    /\ dev = DeviceB
    /\ choice = 1
    /\ idx = 2
    /\ retval = ERR_SUCCESS
    /\ answers = << <<"1">> >>
    /\ writes = <<[attr |-> "authorized", cfgv |-> 2, intf |-> 0],
                  [attr |-> "drivers_probe", cfgv |-> 2, intf |-> 0]>>

\* C21: whichever step found the path gone, recovery looks at what vanished:
\* with the device still plugged in and a valid configuration other than the
\* selected one active, the operator is offered to continue with it, and the
\* session is abandoned as "device removed" only when the device is gone.
C21_RecoveryLooksAtWhatVanished ==
    [][ (pc = "cfg_error" /\ pc' \notin {"cfg_error", "shutdown_prompt"})
          => /\ (/\ devPresent
                 /\ activeCfg \in DOMAIN cfgs_map(dev)
                 /\ activeCfg # get_configuration(dev, choice).value
                    => /\ pc' = "continue_prompt"
                       /\ result' = cfgs_map(dev)[activeCfg] + 1)
             /\ (pc' = "poll" => ~devPresent)
      ]_vars

\* The configuration the interface prompts of the session are about.
PassCfg == get_configuration(dev, shown[Len(shown)].cfg)

\* The authorized attribute of interface number i of that configuration was
\* written in this session.
Written(i) ==
    \E j \in 1..Len(writes) :
       writes[j] = [attr |-> "authorized", cfgv |-> PassCfg.value, intf |-> i]

\* An entry of interface number i was answered "1" or "2" in this session.
Unlocked(i) ==
    \E k \in 1..Len(answers) :
       PassCfg.intfs[k][1] = i /\ answers[k] \in UnlockAnswers

\* One pass over one configuration, between two of its interface prompts or
\* over: at least one entry answered, no continuation with another
\* configuration, no interrupt.
OnePass ==
    /\ pc \in {"intf_prompt", "poll"}
    /\ answers # <<>>
    /\ dev # NoDev
    /\ interruptedAt = "none"
    /\ \A j \in 1..Len(shown) : shown[j].kind # "continue"

UndisturbedPass ==
    /\ OnePass
    /\ devPresent
    /\ kernelEvents = 0
    /\ fault = "none"

====
